---- MODULE Spec2Model ----
(***************************************************************************)
(* Session Manager (BrowserManager) and Shutdown Coordinator               *)
(* (registerProcessHooks) of playwright-mcp-framework.                     *)
(*                                                                         *)
(* Concurrency is cooperative: an async call runs atomically from one      *)
(* resumption to its next I/O suspension (engine call, file system call).  *)
(* Every await of the source that performs I/O is a position ("pc") of a   *)
(* task; awaits that only hop through already-settled promises (runStep    *)
(* returning, a promise being rejected synchronously) belong to the step   *)
(* that settles them.  Every engine or file system call may succeed or     *)
(* throw.                                                                  *)
(***************************************************************************)
EXTENDS Integers, FiniteSets, Sequences, TLC

\* ---------------------------------------------------------------- bounds
NTasks == 1          \* callers of the Session Manager besides the cleanup callback
MaxLaunches == 2     \* engine instances that may be created in a run
NHandlers == 2       \* tool handlers in flight at once when requests are pipelined
MaxCalls == 2        \* call() invocations on the test client in a run
MaxChildren == 2     \* server processes the test client spawns in a run
MaxNameLen == 2      \* characters of a file name in the screenshot directory
MaxPatLen == 2       \* characters of a pattern passed to cleanScreenshots
MaxFiles == 2        \* regular files in the screenshot directory
MaxSubdirs == 1      \* subdirectories of the screenshot directory

\* ------------------------------------------------------ program constants
ExitSuccess == 0
ExitError == 1
ExitSigint == 130
ParseError == -32700
MethodNotFound == -32601
InvalidParams == -32602
InternalError == -32603
NoCode == 0

NULL == 0            \* a null handle
NoExit == -1         \* the process is still running

HookTask == 0        \* the call of the cleanup callback made by performShutdown
Callers == 1..NTasks
Handlers == 1..NHandlers
Slots == Callers \cup Handlers
AllTasks == {HookTask} \cup Slots
Kinds == {"page", "context", "browser"}
Signals == {"SIGINT", "SIGTERM", "uncaughtException", "unhandledRejection"}

StepOps == {"navigate", "waitForSelector", "click", "type"}
RequiresLaunch == {"navigate", "getTitle", "getUrl", "waitForSelector", "find",
                   "click", "type", "getElementInfo", "screenshot", "quit"}

VARIABLES
  browser,            \* BrowserManager.browser  (NULL or the generation of the engine)
  context,            \* BrowserManager.context
  page,               \* BrowserManager.page
  mgrIsShuttingDown,  \* BrowserManager.isShuttingDown (re-entrancy flag of shutdown)
  task,               \* the async calls: operation, position, error, result
  closes,             \* close() calls issued by shutdown on the handle each field holds
  launchCount,        \* launches that passed the already-launched check
  launchedSinceQuit,  \* history: a launch succeeded and no quit/shutdown step ran
                      \* since that launch was called
  cleanSlate,         \* history: no launch was called yet, or none since a quit returned
  solo,               \* history: the call in flight (or just done) overlapped no other call
  isShuttingDown,     \* processHooks: module-level isShuttingDown
  shutdownTimeout,    \* processHooks: the force-exit timer is armed
  exitCode,           \* exitCode argument of the performShutdown call that is running
  exitStatus,         \* status passed to process.exit, NoExit while running
  ignoredTrigger,     \* history: a signal / fault arrived after shutdown had begun
  cleanupCalls,       \* invocations of the cleanup callback shutdownFn
  signal,             \* signal argument of the performShutdown call that is running
  exitBy,             \* history: the process.exit call that ended the process
  isInitialized,      \* MCPServer.isInitialized
  req,                \* per handler in flight: the tool called and the id of its request
  quitAnswered,       \* history: a browser_quit was answered with success and no
                      \* browser_launch was since
  lineRead,           \* the input line the step just taken read, NoLine otherwise
  stdoutLog,          \* the step just taken wrote a diagnostic message to stdout
  serverProcess,      \* McpTestClient.serverProcess: "null" or "running"
  pendingRequests,    \* McpTestClient.pendingRequests: id -> the call registered, 0 if none
  nextId,             \* McpTestClient.nextId
  calls,              \* the call() invocations: id, promise state, timer armed,
                      \* invocations of resolve/reject
  clientStep,         \* the step of the test client just taken
  killed,             \* serverProcess.killed of the child serverProcess refers to
  stdinEnded,         \* stop() has ended the stdin of that child
  stopStep,           \* the stop() in flight: "idle", or waiting for the exit of
                      \* the child ("waiting") that may no longer be the one
                      \* serverProcess refers to ("waitingOrphan")
  staleTimers,        \* grace timers still armed of stop() calls that completed
  orphans,            \* children alive that serverProcess no longer refers to
  spawned,            \* children spawned so far
  dirKind,            \* what config.screenshotDir names: "none", "dir" or "file"
  files,              \* names of the regular files in the screenshot directory
  subdirs,            \* names of its subdirectories
  cleanResult,        \* the cleanScreenshots call just made: pattern and outcome
  written             \* the response the step just taken wrote to stdout, NoResponse otherwise

vars == <<browser, context, page, mgrIsShuttingDown, task, closes, launchCount,
          launchedSinceQuit, cleanSlate, solo, isShuttingDown, shutdownTimeout,
          exitCode, exitStatus, ignoredTrigger, cleanupCalls, signal, exitBy,
          isInitialized, req, quitAnswered, lineRead, written, stdoutLog,
          serverProcess, pendingRequests, nextId, calls, clientStep,
          killed, stdinEnded, stopStep, staleTimers, orphans, spawned,
          dirKind, files, subdirs, cleanResult>>

IdleTask == [op |-> "idle", pc |-> "idle", err |-> "none", res |-> "none",
             shot |-> "none", arg |-> FALSE, gen |-> NULL]

InFlight(tk) == tk.pc \notin {"idle", "done"}

NoOtherInFlight(t) == \A u \in AllTasks \ {t} : ~InFlight(task[u])

Running == exitStatus = NoExit

\* a caller reads the result of its call before anything else happens
NoneDone == \A u \in Slots : task[u].pc # "done"

\* ------------------------------------------------------- pure helpers

\* (variant: the precondition is not checked)
EnsureLaunchedOmitted(b, p) == FALSE

\* ensureLaunched: throws unless both the engine and the page are set
EnsureLaunchedFails(b, p) == b = NULL \/ p = NULL

\* (variant: the guard is missing)
AlreadyLaunchedUnchecked(b, p) == FALSE

\* launch: "if (this.browser) throw"
AlreadyLaunched(b, p) == b # NULL

\* (variant: a failure of the capture escapes captureErrorScreenshot)
RunStepCaptureEscapes(e, shot) == IF shot = "failed" THEN "ScreenshotError" ELSE e

\* runStep: what the caller receives after the best-effort capture
RunStepRethrow(e, shot) == e

\* (variant: the catch rethrows)
InfoCatchRethrows(e) == e

\* getElementInfo: the catch turns every failure into found=false
InfoCatch(e) == "found_false"

\* (variant: the catch does not reset the fields)
QuitCatchKeepsHandles(b, c, p) == <<b, c, p>>

\* quit: the handles after the catch block
QuitCatchHandles(b, c, p) == <<NULL, NULL, NULL>>

\* (variant: no re-entrancy guard)
ShutdownNeverReentered(f) == FALSE

\* shutdown: "if (this.isShuttingDown) return"
ShutdownReentered(f) == f

\* (variant: duplicate signals are not ignored)
ShutdownNeverInProgress(f) == FALSE

\* performShutdown: "if (isShuttingDown) return"
ShutdownInProgress(f) == f

\* exit code handed to performShutdown by each handler
TriggerExitCode(sig) ==
  CASE sig = "SIGINT" -> ExitSigint
    [] sig = "SIGTERM" -> ExitSuccess
    [] OTHER -> ExitError

\* (variant: the catch of performShutdown exits with the code of the trigger)
CleanupFailedKeepsCode(code) == code

\* the status performShutdown's catch passes to process.exit
CleanupFailedExit(code) == ExitError

\* completion of a call: shutdown swallows whatever its inner quit raised
Done(tk, r) == [tk EXCEPT !.pc = "done", !.gen = NULL,
                          !.res = IF tk.op = "shutdown" THEN "ok" ELSE r]

\* (variant: runStep rethrows without attempting the capture)
AfterFailureNoCapture(tk, e, b, p) == Done([tk EXCEPT !.err = e], e)

\* captureErrorScreenshot up to its first suspension, then runStep's rethrow
AfterFailure(tk, e, b, p) ==
  LET tk1 == [tk EXCEPT !.err = e, !.gen = NULL, !.arg = FALSE] IN
  IF p = NULL
    THEN Done([tk1 EXCEPT !.shot = "skipped"], RunStepRethrow(e, "skipped"))
    ELSE IF EnsureLaunchedFails(b, p)
      THEN Done([tk1 EXCEPT !.shot = "failed"], RunStepRethrow(e, "failed"))
      ELSE [tk1 EXCEPT !.pc = "shotEnsureDir"]

\* quit: the next close to issue, from the given stage on
QuitNext(stage, b, c, p) ==
  IF stage <= 1 /\ p # NULL THEN "closePage"
  ELSE IF stage <= 2 /\ c # NULL THEN "closeContext"
  ELSE IF b # NULL THEN "closeBrowser"
  ELSE "done"

\* the handle kind whose close() is awaited at a position of quit
ClosingKind(pc) ==
  CASE pc = "closePage" -> "page"
    [] pc = "closeContext" -> "context"
    [] pc = "closeBrowser" -> "browser"
    [] OTHER -> "none"

Field(k, b, c, p) ==
  CASE k = "page" -> p
    [] k = "context" -> c
    [] k = "browser" -> b

\* quit suspended at a close: gen is the handle close() was called on
Closing(tk, pc, b, c, p) ==
  [tk EXCEPT !.pc = pc, !.gen = Field(ClosingKind(pc), b, c, p)]

\* closes after a step: a field that received another value holds a handle
\* no shutdown has closed; a shutdown entering a close position issues one
ClosesAfter(tk, ntk, b, c, p) ==
  [k \in Kinds |->
     IF Field(k, b, c, p) # Field(k, browser, context, page) THEN 0
     ELSE IF ntk.op = "shutdown" /\ ClosingKind(ntk.pc) = k /\ ntk.pc # tk.pc
       THEN (IF closes[k] < 2 THEN closes[k] + 1 ELSE closes[k])
       ELSE closes[k]]


\* history kept in arg of a launch in flight: a step of quit or shutdown ran
\* since the launch was called
Overlapped(tk) ==
  IF tk.op = "launch" /\ InFlight(tk) THEN [tk EXCEPT !.arg = TRUE] ELSE tk

\* process.exit: the calls of the callers that are still pending never resume
Abandoned(tasks) ==
  [u \in AllTasks |-> IF u \in Slots THEN IdleTask ELSE tasks[u]]

\* ------------------------------------------------------- protocol records

\* the id member of a request: absent, JSON null, or a value
ReqIds == {"absent", "id1", "id2"}

\* the tool names a client may send: the documented catalogue and a stranger
NamesSent == {"browser_launch", "browser_navigate", "browser_find",
              "browser_click", "browser_type", "browser_screenshot",
              "browser_quit", "no_such_tool"}

MkLine(json, method, id, params, name, url, file) ==
  [json |-> json, method |-> method, id |-> id, params |-> params,
   name |-> name, url |-> url, file |-> file]

NoLine == MkLine("none", "none", "absent", "none", "none", FALSE, FALSE)

\* the input lines, by what the line handler and the routers read of them
Lines ==
  {MkLine(j, "none", "absent", "none", "none", FALSE, FALSE) :
     j \in {"blank", "invalid", "null", "scalar"}}
  \cup {MkLine("object", m, i, "none", "none", FALSE, FALSE) :
          m \in {"initialize", "tools/list", "other"}, i \in ReqIds}
  \cup {MkLine("object", "tools/call", i, pr, "none", FALSE, FALSE) :
          pr \in {"notObject", "noName"}, i \in ReqIds}
  \cup {MkLine("object", "tools/call", i, "named", n, FALSE, FALSE) :
          i \in ReqIds, n \in NamesSent}
  \cup {MkLine("object", "tools/call", i, "named", "browser_navigate", TRUE, FALSE) :
          i \in ReqIds}
  \cup {MkLine("object", "tools/call", i, "named", "browser_screenshot", FALSE, TRUE) :
          i \in ReqIds}

NoReq == [tool |-> "none", id |-> "absent", afterQuit |-> FALSE]

MkResponse(id, result, tools, code, message, about) ==
  [id |-> id, result |-> result, tools |-> tools, code |-> code,
   message |-> message, about |-> about]

NoResponse == MkResponse("absent", "none", {}, NoCode, "none", "none")

\* the variables of the test client
fsVars == <<dirKind, files, subdirs, cleanResult>>

\* no cleanScreenshots call was just made
NoClean == [pattern |-> <<>>, outcome |-> "none", count |-> 0]

stopVars == <<killed, stdinEnded, stopStep, staleTimers, orphans, spawned>>

clientVars == <<serverProcess, pendingRequests, nextId, calls, clientStep,
                stopVars>>

\* a call() not made yet
NoCall == [id |-> 0, st |-> "unused", timer |-> FALSE, settles |-> 0]

\* the test client has taken no step, or the step was not one of its own
NoClientStep == [kind |-> "none", id |-> 0, c |-> 0]

\* (variant: the server logs with console.log)
LogSinkServerConsole(component) ==
  IF component = "server" THEN "stdout" ELSE "stderr"

\* the stream the diagnostics of a component are written to: Logger.debug,
\* info, warn and error call process.stderr.write, shutdown's console.error
\* writes to stderr
LogSink(component) == "stderr"

\* some diagnostic message of the components that log in a step reaches stdout
Diagnostics(components) == \E c \in components : LogSink(c) = "stdout"

\* the step reads no line and writes no response
Quiet ==
  /\ lineRead' = NoLine
  /\ written' = NoResponse
  /\ stdoutLog' = Diagnostics({"session", "coordinator"})
  /\ UNCHANGED <<clientVars, fsVars>>
  /\ UNCHANGED <<isInitialized, req, quitAnswered>>

\* ------------------------------------------------------- initial state
Init ==
  /\ browser = NULL /\ context = NULL /\ page = NULL
  /\ mgrIsShuttingDown = FALSE
  /\ task = [t \in AllTasks |-> IdleTask]
  /\ closes = [k \in Kinds |-> 0]
  /\ launchCount = 0
  /\ launchedSinceQuit = FALSE
  /\ cleanSlate = TRUE
  /\ solo = FALSE
  /\ isShuttingDown = FALSE
  /\ shutdownTimeout = FALSE
  /\ exitCode = ExitSuccess
  /\ exitStatus = NoExit
  /\ ignoredTrigger = FALSE
  /\ cleanupCalls = 0
  /\ signal = "none"
  /\ exitBy = "none"
  /\ isInitialized = FALSE
  /\ req = [t \in Slots |-> NoReq]
  /\ quitAnswered = FALSE
  /\ lineRead = NoLine
  /\ written = NoResponse
  /\ stdoutLog = FALSE
  /\ serverProcess = "null"
  /\ pendingRequests = [i \in 1..MaxCalls |-> 0]
  /\ nextId = 1
  /\ calls = [c \in 1..MaxCalls |-> NoCall]
  /\ clientStep = NoClientStep
  /\ killed = FALSE /\ stdinEnded = FALSE /\ stopStep = "idle"
  /\ staleTimers = 0 /\ orphans = 0 /\ spawned = 0
  /\ dirKind = "none" /\ files = {} /\ subdirs = {} /\ cleanResult = NoClean

\* ------------------------------------------------------- frame of a step

\* Task t moves to ntk; the handles become b, c, p; the flag of shutdown f.
Effect(t, ntk, b, c, p, f) ==
  /\ browser' = b /\ context' = c /\ page' = p
  /\ mgrIsShuttingDown' = f
  /\ closes' = ClosesAfter(task[t], ntk, b, c, p)
  /\ task' = IF t = HookTask /\ ntk.pc = "done"
               THEN Abandoned([task EXCEPT ![t] = ntk])
               ELSE [u \in AllTasks |->
                      IF u = t THEN ntk
                      ELSE IF ntk.op \in {"quit", "shutdown"} THEN Overlapped(task[u])
                      ELSE task[u]]
  /\ solo' = IF task[t].pc = "idle" THEN NoOtherInFlight(t) ELSE solo
  /\ launchedSinceQuit' =
       IF ntk.op \in {"quit", "shutdown"} THEN FALSE
       ELSE IF ntk.op = "launch" /\ ntk.pc = "done" /\ ntk.res = "ok" /\ ~ntk.arg
         THEN TRUE
       ELSE launchedSinceQuit
  /\ cleanSlate' =
       IF ntk.op = "launch" THEN FALSE
       ELSE IF /\ ntk.op = "quit" /\ ntk.pc = "done"
               /\ \A u \in AllTasks \ {t} :
                     ~(task[u].op = "launch" /\ InFlight(task[u]))
         THEN TRUE
       ELSE cleanSlate

\* the flag of shutdown after a step of the call that holds it
FlagAfter(ntk) ==
  IF ntk.op = "shutdown" /\ ntk.pc = "done" THEN FALSE ELSE mgrIsShuttingDown

\* performShutdown resumes when the cleanup callback settles: the timer is
\* cleared and the process exits with the code of the trigger
CoordAfter(t, ntk) ==
  IF t = HookTask /\ ntk.pc = "done"
    THEN /\ exitStatus' = exitCode
         /\ shutdownTimeout' = FALSE
         /\ exitBy' = "cleanup"
         /\ UNCHANGED <<isShuttingDown, exitCode, ignoredTrigger, cleanupCalls, signal>>
    ELSE UNCHANGED <<isShuttingDown, shutdownTimeout, exitCode, exitStatus,
                     ignoredTrigger, cleanupCalls, signal, exitBy>>

\* a continuation of task t that touches no handle
Resume(t, ntk) ==
  /\ Effect(t, ntk, browser, context, page, FlagAfter(ntk))
  /\ CoordAfter(t, ntk)
  /\ UNCHANGED launchCount

NewCall(op, a) == [IdleTask EXCEPT !.op = op, !.pc = "idle", !.arg = a]

CanCall(t) == Running /\ NoneDone /\ t \in Slots /\ task[t].pc = "idle"

At(t, pc) == Running /\ NoneDone /\ task[t].pc = pc

\* ------------------------------------------------------- launch

Launch(t) ==
  /\ CanCall(t)
  /\ LET tk == NewCall("launch", FALSE) IN
     IF AlreadyLaunched(browser, page)
       THEN Resume(t, AfterFailure(tk, "AlreadyLaunched", browser, page))
       ELSE /\ launchCount < MaxLaunches
            /\ Effect(t, [tk EXCEPT !.pc = "ensureDir", !.gen = launchCount + 1],
                      browser, context, page, mgrIsShuttingDown)
            /\ launchCount' = launchCount + 1
            /\ UNCHANGED <<isShuttingDown, shutdownTimeout, exitCode,
                           exitStatus, ignoredTrigger, cleanupCalls, signal, exitBy>>

LaunchEnsureDirDone(t) ==
  /\ At(t, "ensureDir")
  /\ \E ok \in BOOLEAN :
       IF ok THEN Resume(t, [task[t] EXCEPT !.pc = "chromiumLaunch"])
             ELSE Resume(t, AfterFailure(task[t], "EngineError", browser, page))

ChromiumLaunchDone(t) ==
  /\ At(t, "chromiumLaunch")
  /\ \E ok \in BOOLEAN :
       IF ok
         THEN /\ Effect(t, [task[t] EXCEPT !.pc = "newContext"],
                        task[t].gen, context, page, mgrIsShuttingDown)
              /\ CoordAfter(t, task[t])
              /\ UNCHANGED launchCount
         ELSE Resume(t, AfterFailure(task[t], "EngineError", browser, page))

NewContextDone(t) ==
  /\ At(t, "newContext")
  /\ \E ok \in BOOLEAN :
       IF ok
         THEN /\ Effect(t, [task[t] EXCEPT !.pc = "newPage"],
                        browser, task[t].gen, page, mgrIsShuttingDown)
              /\ CoordAfter(t, task[t])
              /\ UNCHANGED launchCount
         ELSE Resume(t, AfterFailure(task[t], "EngineError", browser, page))

NewPageDone(t) ==
  /\ At(t, "newPage")
  /\ \E ok \in BOOLEAN :
       IF ok
         THEN /\ Effect(t, Done(task[t], "ok"),
                        browser, context, task[t].gen, mgrIsShuttingDown)
              /\ CoordAfter(t, task[t])
              /\ UNCHANGED launchCount
         ELSE Resume(t, AfterFailure(task[t], "EngineError", browser, page))
\* ------------------------------------------------------- page operations

\* navigate, waitForSelector, click, type: ensureLaunched, then one engine
\* call inside runStep (type with clear=true issues clear, then fill)
StepOp(t, op, a) ==
  /\ CanCall(t)
  /\ op \in StepOps
  /\ (a => op = "type")
  /\ LET tk == NewCall(op, a) IN
     IF EnsureLaunchedFails(browser, page)
       THEN Resume(t, Done(tk, "NotLaunched"))
       ELSE Resume(t, [tk EXCEPT !.pc = IF a THEN "typeClear" ELSE "engineCall"])

Navigate(t) == StepOp(t, "navigate", FALSE)

WaitForSelector(t) == StepOp(t, "waitForSelector", FALSE)

Click(t) == StepOp(t, "click", FALSE)

Type(t) == \E clear \in BOOLEAN : StepOp(t, "type", clear)

\* the error a failing engine call becomes inside the operation
StepError(op) ==
  CASE op = "click" -> "ClickFailed"
    [] op = "type" -> "TypeFailed"
    [] OTHER -> "EngineError"

TypeClearDone(t) ==
  /\ At(t, "typeClear")
  /\ \E ok \in BOOLEAN :
       IF ok THEN Resume(t, [task[t] EXCEPT !.pc = "engineCall", !.arg = FALSE])
             ELSE Resume(t, AfterFailure(task[t], StepError(task[t].op), browser, page))

EngineCallDone(t) ==
  /\ At(t, "engineCall")
  /\ \E ok \in BOOLEAN :
       IF ok THEN Resume(t, Done(task[t], "ok"))
             ELSE Resume(t, AfterFailure(task[t], StepError(task[t].op), browser, page))

\* getTitle: ensureLaunched, then page.title() outside runStep
GetTitle(t) ==
  /\ CanCall(t)
  /\ LET tk == NewCall("getTitle", FALSE) IN
     IF EnsureLaunchedFails(browser, page)
       THEN Resume(t, Done(tk, "NotLaunched"))
       ELSE Resume(t, [tk EXCEPT !.pc = "title"])

TitleDone(t) ==
  /\ At(t, "title")
  /\ \E ok \in BOOLEAN :
       Resume(t, Done(task[t], IF ok THEN "ok" ELSE "EngineError"))

\* getUrl and find: ensureLaunched, then a synchronous read of the page
SyncRead(t, op) ==
  /\ CanCall(t)
  /\ LET tk == NewCall(op, FALSE) IN
     Resume(t, Done(tk, IF EnsureLaunchedFails(browser, page)
                          THEN "NotLaunched" ELSE "ok"))

GetUrl(t) == SyncRead(t, "getUrl")

Find(t) == SyncRead(t, "find")

\* getElementInfo(selector): arg tells whether the selector matches an element
GetElementInfo(t) ==
  /\ CanCall(t)
  /\ \E matches \in BOOLEAN :
       LET tk == NewCall("getElementInfo", matches) IN
       IF EnsureLaunchedFails(browser, page)
         THEN Resume(t, Done(tk, "NotLaunched"))
         ELSE Resume(t, [tk EXCEPT !.pc = "waitAttached"])

\* waitFor(attached) times out when nothing matches; any engine call may throw
InfoStep(t, pc, next) ==
  /\ At(t, pc)
  /\ \E ok \in BOOLEAN :
       IF ok /\ task[t].arg
         THEN Resume(t, IF next = "done" THEN Done(task[t], "found_true")
                                         ELSE [task[t] EXCEPT !.pc = next])
         ELSE Resume(t, Done(task[t], InfoCatch("EngineError")))

WaitAttachedDone(t) == InfoStep(t, "waitAttached", "evaluate")

EvaluateDone(t) == InfoStep(t, "evaluate", "innerText")

InnerTextDone(t) == InfoStep(t, "innerText", "boundingBox")

BoundingBoxDone(t) == InfoStep(t, "boundingBox", "done")

\* screenshot(options): arg tells whether a path was given
\* screenshot(options) up to its first suspension
ScreenshotCall(t, hasPath) ==
  LET tk == NewCall("screenshot", hasPath) IN
  IF EnsureLaunchedFails(browser, page)
    THEN Resume(t, Done(tk, "NotLaunched"))
    ELSE Resume(t, IF hasPath THEN [tk EXCEPT !.pc = "shotEnsureDir"]
                              ELSE [tk EXCEPT !.pc = "shotCapture"])

Screenshot(t) ==
  /\ CanCall(t)
  /\ \E hasPath \in BOOLEAN : ScreenshotCall(t, hasPath)

\* a screenshot call is the error capture of runStep when err is set
Capturing(tk) == tk.err # "none"

ShotEnd(tk, saved, e) ==
  IF Capturing(tk)
    THEN LET s == IF saved THEN "saved" ELSE "failed" IN
         Done([tk EXCEPT !.shot = s], RunStepRethrow(tk.err, s))
    ELSE Done(tk, IF saved THEN "ok" ELSE e)

\* screenshot after "await ensureDir(parentDir)": this.page is read again
ShotEnsureDirDone(t) ==
  /\ At(t, "shotEnsureDir")
  /\ \E ok \in BOOLEAN :
       IF ~ok THEN Resume(t, ShotEnd(task[t], FALSE, "EngineError"))
       ELSE IF page = NULL THEN Resume(t, ShotEnd(task[t], FALSE, "TypeError"))
       ELSE Resume(t, [task[t] EXCEPT !.pc = "shotCapture", !.arg = FALSE])

ShotCaptureDone(t) ==
  /\ At(t, "shotCapture")
  /\ \E ok \in BOOLEAN : Resume(t, ShotEnd(task[t], ok, "EngineError"))

\* ------------------------------------------------------- quit and shutdown

\* the body of quit from the given stage on, with the handles b, c, p
QuitFrom(t, tk, stage, b, c, p) ==
  LET pc == QuitNext(stage, b, c, p)
      ntk == IF pc = "done" THEN Done(tk, "ok") ELSE Closing(tk, pc, b, c, p)
  IN /\ Effect(t, ntk, b, c, p,
               IF tk.op = "shutdown" THEN pc # "done" ELSE mgrIsShuttingDown)
     /\ CoordAfter(t, ntk)
     /\ UNCHANGED launchCount

\* a close threw: the catch of quit resets the handles, runStep captures
QuitFailed(t) ==
  LET h == QuitCatchHandles(browser, context, page)
      ntk == AfterFailure(task[t], "CloseError", h[1], h[3])
  IN /\ Effect(t, ntk, h[1], h[2], h[3], FlagAfter(ntk))
     /\ CoordAfter(t, ntk)
     /\ UNCHANGED launchCount

Quit(t) ==
  /\ CanCall(t)
  /\ LET tk == NewCall("quit", FALSE) IN
     IF EnsureLaunchedFails(browser, page)
       THEN Resume(t, Done(tk, "NotLaunched"))
       ELSE QuitFrom(t, tk, 1, browser, context, page)

ClosePageDone(t) ==
  /\ At(t, "closePage")
  /\ \E ok \in BOOLEAN :
       IF ok THEN QuitFrom(t, task[t], 2, browser, context, NULL)
             ELSE QuitFailed(t)

CloseContextDone(t) ==
  /\ At(t, "closeContext")
  /\ \E ok \in BOOLEAN :
       IF ok THEN QuitFrom(t, task[t], 3, browser, NULL, page)
             ELSE QuitFailed(t)

CloseBrowserDone(t) ==
  /\ At(t, "closeBrowser")
  /\ \E ok \in BOOLEAN :
       IF ok THEN QuitFrom(t, task[t], 4, NULL, context, page)
             ELSE QuitFailed(t)

\* shutdown up to its first suspension, called by task t
ShutdownCall(t) ==
  LET tk == NewCall("shutdown", FALSE) IN
  IF ShutdownReentered(mgrIsShuttingDown)
    THEN /\ Effect(t, Done(tk, "ok"), browser, context, page, mgrIsShuttingDown)
         /\ UNCHANGED launchCount
  ELSE IF browser = NULL
    THEN /\ Effect(t, Done(tk, "ok"), browser, context, page, FALSE)
         /\ UNCHANGED launchCount
  ELSE IF EnsureLaunchedFails(browser, page)
    THEN /\ Effect(t, Done([tk EXCEPT !.err = "NotLaunched"], "ok"),
                   browser, context, page, FALSE)
         /\ UNCHANGED launchCount
  ELSE LET pc == QuitNext(1, browser, context, page) IN
       /\ Effect(t, Closing(tk, pc, browser, context, page),
                 browser, context, page, TRUE)
       /\ UNCHANGED launchCount

Shutdown(t) ==
  /\ CanCall(t)
  /\ ShutdownCall(t)
  /\ UNCHANGED <<isShuttingDown, shutdownTimeout, exitCode, exitStatus,
                 ignoredTrigger, cleanupCalls, signal, exitBy>>

\* the caller has observed the result
Return(t) ==
  /\ Running /\ t \in Slots /\ task[t].pc = "done"
  /\ task' = [task EXCEPT ![t] = IdleTask]
  /\ UNCHANGED <<browser, context, page, mgrIsShuttingDown, closes, launchCount,
                 launchedSinceQuit, cleanSlate, solo, isShuttingDown,
                 shutdownTimeout, exitCode, exitStatus, ignoredTrigger, cleanupCalls,
                 signal, exitBy>>

\* ------------------------------------------------------- shutdown coordinator

\* SIGINT, SIGTERM, uncaughtException or unhandledRejection: performShutdown
\* up to the first suspension of the cleanup callback (browserManager.shutdown)
Trigger(sig) ==
  /\ Running /\ NoneDone
  /\ IF ShutdownInProgress(isShuttingDown)
       THEN /\ ignoredTrigger' = TRUE
            /\ UNCHANGED <<browser, context, page, mgrIsShuttingDown, task, closes,
                        launchCount, launchedSinceQuit, cleanSlate, solo,
                        isShuttingDown, shutdownTimeout, exitCode, exitStatus,
                        cleanupCalls, signal, exitBy>>
       ELSE /\ UNCHANGED ignoredTrigger
            /\ isShuttingDown' = TRUE
            /\ signal' = sig
            /\ exitCode' = TriggerExitCode(sig)
            /\ cleanupCalls' = cleanupCalls + 1
            /\ ShutdownCall(HookTask)
            /\ IF task'[HookTask].pc = "done"
                 THEN /\ exitStatus' = TriggerExitCode(sig)
                      /\ shutdownTimeout' = FALSE
                      /\ exitBy' = "cleanup"
                 ELSE /\ exitStatus' = NoExit
                      /\ shutdownTimeout' = TRUE
                      /\ exitBy' = "none"

\* (variant: the timer callback logs and does not end the process)
ForceExitOnlyLogs ==
  /\ Running /\ NoneDone
  /\ shutdownTimeout
  /\ shutdownTimeout' = FALSE
  /\ UNCHANGED <<browser, context, page, mgrIsShuttingDown, task, closes,
                 launchCount, launchedSinceQuit, cleanSlate, solo, isShuttingDown,
                 exitCode, exitStatus, ignoredTrigger, cleanupCalls, signal, exitBy>>

\* the force-exit timer fires after SHUTDOWN_TIMEOUT_MS
ForceExit ==
  /\ Running /\ NoneDone
  /\ shutdownTimeout
  /\ exitStatus' = exitCode
  /\ exitBy' = "timer"
  /\ task' = Abandoned(task)
  /\ UNCHANGED <<browser, context, page, mgrIsShuttingDown, closes,
                 launchCount, launchedSinceQuit, cleanSlate, solo, isShuttingDown,
                 shutdownTimeout, exitCode, ignoredTrigger, cleanupCalls, signal>>

\* the cleanup callback rejects while performShutdown awaits it: the catch
\* clears the timer and exits with ExitCode.ERROR
CleanupRejects ==
  /\ Running /\ NoneDone
  /\ isShuttingDown /\ InFlight(task[HookTask])
  /\ exitStatus' = CleanupFailedExit(exitCode)
  /\ exitBy' = "cleanupFailed"
  /\ shutdownTimeout' = FALSE
  /\ task' = Abandoned(task)
  /\ UNCHANGED <<browser, context, page, mgrIsShuttingDown, closes,
                 launchCount, launchedSinceQuit, cleanSlate, solo, isShuttingDown,
                 exitCode, ignoredTrigger, cleanupCalls, signal>>

\* ------------------------------------------------------- protocol server

\* the variables of the Session Manager and the Shutdown Coordinator
hookVars == <<browser, context, page, mgrIsShuttingDown, task, closes, launchCount,
              launchedSinceQuit, cleanSlate, solo, isShuttingDown, shutdownTimeout,
              exitCode, exitStatus, ignoredTrigger, cleanupCalls, signal, exitBy>>

\* sendResult: a response with a result member and no error member
SendResult(id, result, tools) ==
  MkResponse(id, result, tools, NoCode, "none", "none")

\* sendError: a response with an error member (code, message) and no result;
\* about is the name or the error text the message ends with
SendError(id, code, message, about) ==
  MkResponse(id, "none", {}, code, message, about)

\* (variant: the id of the request is not echoed)
IdDropped(id) == "null"

\* id ?? null
IdOrNull(id) == IF id = "absent" THEN "null" ELSE id

\* handleToolsList: the names in the tools array
ListedTools == {"browser_launch", "browser_navigate", "browser_screenshot",
                "browser_quit"}

\* handleToolsCall: the names its switch dispatches to a tool handler
Dispatched(name) ==
  name \in {"browser_launch", "browser_navigate", "browser_screenshot",
            "browser_quit"}

\* the line handler returns or answers before any suspension
SyncLine(l) ==
  \/ l.json \in {"blank", "invalid", "scalar"}
  \/ l.json = "object" /\ l.method # "tools/call"
  \/ /\ l.json = "object" /\ l.method = "tools/call"
     /\ \/ l.params # "named"
        \/ ~Dispatched(l.name)
        \/ l.name = "browser_navigate" /\ ~l.url

\* (variant: the parse error is reported under another code)
ParseErrorAsInvalidParams(l) ==
  SendError("null", InvalidParams, "Parse error", "none")

\* the catch of JSON.parse in the line handler
ParseErrorResponse(l) == SendError("null", ParseError, "Parse error", "none")

\* (variant: the default of handleToolsCall answers with invalid params)
UnknownToolAsInvalidParams(id, name) ==
  SendError(id, InvalidParams, "Unknown tool", name)

\* the default of the switch of handleToolsCall
UnknownToolResponse(id, name) ==
  SendError(id, MethodNotFound, "Unknown tool", name)

\* (variant: a bad parameter is reported as an internal error)
InvalidParamsAsInternal(id, message) ==
  SendError(id, InternalError, message, "none")

\* the parameter checks of handleToolsCall and toolBrowserNavigate
InvalidParamsResponse(id, message) ==
  SendError(id, InvalidParams, message, "none")

\* the line handler, handleRequest and handleToolsCall for such a line
SyncResponse(l) ==
  LET id == IdOrNull(l.id) IN
  IF l.json = "blank" THEN NoResponse
  ELSE IF l.json = "invalid" THEN ParseErrorResponse(l)
  ELSE IF l.json = "scalar"
    THEN SendError("null", MethodNotFound, "Method not found", "undefined")
  ELSE IF l.method = "initialize" THEN SendResult(id, "initialized", {})
  ELSE IF l.method = "tools/list" THEN SendResult(id, "tools", ListedTools)
  ELSE IF l.method = "other"
    THEN SendError(id, MethodNotFound, "Method not found", "other")
  ELSE IF l.params = "notObject"
    THEN InvalidParamsResponse(id, "Invalid params: expected object")
  ELSE IF l.params = "noName"
    THEN InvalidParamsResponse(id, "Invalid params: missing or invalid name")
  ELSE IF ~Dispatched(l.name) THEN UnknownToolResponse(id, l.name)
  ELSE InvalidParamsResponse(id, "Missing or invalid url parameter")

\* error.message.includes('not launched')
MentionsNotLaunched(res) == res = "NotLaunched"

\* (variant: the catch of the handler always answers with the generic message)
ToolResponseUnguided(tool, id, res) ==
  IF res = "ok" THEN SendResult(id, tool, {})
  ELSE SendError(id, InternalError, "Failed", res)

\* what a tool handler answers when the Session Manager call has settled
ToolResponse(tool, id, res) ==
  IF res = "ok" THEN SendResult(id, tool, {})
  ELSE IF tool \in {"browser_navigate", "browser_screenshot"}
          /\ MentionsNotLaunched(res)
    THEN SendError(id, InternalError,
                   "Browser not launched. Call browser_launch first.", "none")
  ELSE SendError(id, InternalError, "Failed", res)

\* (variant: the flag holds only for the line that carries initialize)
HandshakeForgotten(init, l) == l.json = "object" /\ l.method = "initialize"

\* handleInitialize sets isInitialized; nothing ever clears it
HandshakeAfter(init, l) ==
  init \/ (l.json = "object" /\ l.method = "initialize")

\* a line that the handler answers, or ignores, without suspending
Answer(l) ==
  /\ Running /\ NoneDone
  /\ SyncLine(l)
  /\ lineRead' = l
  /\ written' = SyncResponse(l)
  /\ isInitialized' = HandshakeAfter(isInitialized, l)
  /\ stdoutLog' = (l.json # "blank" /\ Diagnostics({"server"}))
  /\ UNCHANGED <<clientVars, fsVars>>
  /\ UNCHANGED <<hookVars, req, quitAnswered>>

\* the line "null": handleRequest throws on destructuring, the catch of the
\* line handler throws on request.id, and the rejection of the async listener
\* reaches the unhandledRejection hook
ReadNull ==
  /\ Trigger("unhandledRejection")
  /\ lineRead' = MkLine("null", "none", "absent", "none", "none", FALSE, FALSE)
  /\ written' = NoResponse
  /\ stdoutLog' = Diagnostics({"server", "coordinator"})
  /\ UNCHANGED <<clientVars, fsVars>>
  /\ UNCHANGED <<isInitialized, req, quitAnswered>>

CallLine(id, name, url, file) ==
  MkLine("object", "tools/call", id, "named", name, url, file)

\* the line starts a tool handler on slot t
Accepts(t, l) ==
  /\ lineRead' = l
  /\ written' = NoResponse
  /\ req' = [req EXCEPT ![t] = [tool |-> l.name, id |-> l.id,
                                 afterQuit |-> quitAnswered]]
  /\ stdoutLog' = Diagnostics({"server", "session"})
  /\ UNCHANGED <<clientVars, fsVars>>
  /\ UNCHANGED <<isInitialized, quitAnswered>>

ToolBrowserLaunch(t) ==
  \E id \in ReqIds :
    Launch(t) /\ Accepts(t, CallLine(id, "browser_launch", FALSE, FALSE))

ToolBrowserNavigate(t) ==
  \E id \in ReqIds :
    Navigate(t) /\ Accepts(t, CallLine(id, "browser_navigate", TRUE, FALSE))

\* with a filename the handler awaits ensureDir before it calls screenshot
ToolBrowserScreenshot(t) ==
  \E id \in ReqIds, file \in BOOLEAN :
    /\ CanCall(t)
    /\ IF file
         THEN Resume(t, [NewCall("screenshot", TRUE) EXCEPT !.pc = "toolEnsureDir"])
         ELSE ScreenshotCall(t, FALSE)
    /\ Accepts(t, CallLine(id, "browser_screenshot", FALSE, file))

ToolEnsureDirDone(t) ==
  /\ At(t, "toolEnsureDir")
  /\ \E ok \in BOOLEAN :
       IF ok THEN ScreenshotCall(t, TRUE)
             ELSE Resume(t, Done(task[t], "EngineError"))

\* browser_quit calls browserManager.shutdown()
ToolBrowserQuit(t) ==
  \E id \in ReqIds :
    Shutdown(t) /\ Accepts(t, CallLine(id, "browser_quit", FALSE, FALSE))

\* (variant: the request is kept in a field shared by all handlers)
RequestShared(t) ==
  req[CHOOSE u \in Slots :
        req[u] # NoReq /\ \A v \in Slots : req[v] # NoReq => u <= v]

\* the id parameter of the handler invocation on slot t
RequestOf(t) == req[t]

\* the Session Manager call of the handler on slot t has settled: the handler
\* writes its response
Respond(t) ==
  /\ Return(t)
  /\ lineRead' = NoLine
  /\ written' = ToolResponse(req[t].tool, IdOrNull(RequestOf(t).id), task[t].res)
  /\ req' = [req EXCEPT ![t] = NoReq]
  /\ quitAnswered' =
       IF req[t].tool = "browser_quit" THEN TRUE
       ELSE IF req[t].tool = "browser_launch" /\ task[t].res = "ok" THEN FALSE
       ELSE quitAnswered
  /\ stdoutLog' = Diagnostics({"server"})
  /\ UNCHANGED <<isInitialized, clientVars, fsVars>>

\* readline emits close: process.exit(0)
StdinClose ==
  /\ Running /\ NoneDone
  /\ exitStatus' = ExitSuccess
  /\ exitBy' = "stdin"
  /\ task' = Abandoned(task)
  /\ UNCHANGED <<browser, context, page, mgrIsShuttingDown, closes,
                 launchCount, launchedSinceQuit, cleanSlate, solo, isShuttingDown,
                 shutdownTimeout, exitCode, ignoredTrigger, cleanupCalls, signal>>
  /\ Quiet

\* ------------------------------------------------------- test client

\* the variables of the server process
serverVars == <<isInitialized, req, quitAnswered, lineRead, written, stdoutLog>>

\* resolve or reject is invoked on the promise of a call: a promise keeps the
\* first settlement
Settled(cl, how) ==
  [cl EXCEPT !.st = IF cl.st = "pending" THEN how ELSE cl.st,
             !.settles = IF cl.settles < 2 THEN cl.settles + 1 ELSE cl.settles]

\* the response lines the child may write: blank, not JSON, or an object
\* whose id is a number, a string or null, with or without an error member
ResponseLines ==
  {[json |-> j, id |-> 0, error |-> FALSE] : j \in {"blank", "invalid"}}
  \cup {[json |-> "object", id |-> i, error |-> e] :
          i \in (1..MaxCalls) \cup {-1, -2}, e \in BOOLEAN}

\* id -1 stands for null, -2 for a string: typeof response.id === 'number'
NumericId(l) == l.json = "object" /\ l.id > 0

\* McpTestClient.start
ClientStart ==
  /\ serverProcess = "null"
  /\ spawned < MaxChildren
  /\ serverProcess' = "running"
  /\ spawned' = spawned + 1
  /\ killed' = FALSE /\ stdinEnded' = FALSE
  /\ clientStep' = [kind |-> "start", id |-> 0, c |-> 0]
  /\ UNCHANGED <<pendingRequests, nextId, calls, stopStep, staleTimers, orphans,
                 hookVars, serverVars, fsVars>>

\* McpTestClient.call: supplied is the id argument, 0 when it is omitted
Call(c, supplied) ==
  /\ calls[c].st = "unused"
  /\ \A d \in 1..MaxCalls : d < c => calls[d].st # "unused"
  /\ IF serverProcess = "null"
       THEN /\ calls' = [calls EXCEPT ![c] = Settled([NoCall EXCEPT !.st = "pending"],
                                                    "rejected")]
            /\ clientStep' = [kind |-> "callNotRunning", id |-> 0, c |-> c]
            /\ UNCHANGED <<pendingRequests, nextId>>
       ELSE LET requestId == IF supplied = 0 THEN nextId ELSE supplied IN
            /\ requestId <= MaxCalls
            /\ nextId' = IF supplied = 0 THEN nextId + 1 ELSE nextId
            /\ calls' = [calls EXCEPT ![c] = [id |-> requestId, st |-> "pending",
                                             timer |-> TRUE, settles |-> 0]]
            /\ pendingRequests' = [pendingRequests EXCEPT ![requestId] = c]
            /\ clientStep' = [kind |-> "call", id |-> requestId, c |-> c]
  /\ UNCHANGED <<serverProcess, stopVars, hookVars, serverVars, fsVars>>

\* (variant: an error response resolves the promise with the response)
ResponseOutcomeAlwaysResolves(l) == "resolved"

\* handleResponse: reject on an error member, resolve otherwise
ResponseOutcome(l) == IF l.error THEN "rejected" ELSE "resolved"

\* (variant: handleResponse leaves the entry in the table)
AfterResponseKept(table, id) == table

\* handleResponse: this.pendingRequests.delete(requestId)
AfterResponse(table, id) == [table EXCEPT ![id] = 0]

\* (variant: a response without a numeric id is matched with the first entry)
PendingOfAnyId(table, l) == IF NumericId(l) THEN table[l.id] ELSE table[1]

\* handleResponse: the entry a line is matched with (0: none); a line that is
\* blank or not JSON, or whose id is not a number, returns before the lookup
PendingOf(table, l) == IF NumericId(l) THEN table[l.id] ELSE 0

\* McpTestClient.handleResponse on one line of the child's output
HandleResponse(l) ==
  LET c == PendingOf(pendingRequests, l) IN
  /\ clientStep' = [kind |-> IF l.json = "object" /\ l.error
                               THEN "errorResponse" ELSE "response",
                    id |-> l.id, c |-> c]
  /\ IF c # 0
       THEN /\ pendingRequests' = AfterResponse(pendingRequests, l.id)
            /\ calls' = [calls EXCEPT
                           ![c] = Settled([calls[c] EXCEPT !.timer = FALSE],
                                          ResponseOutcome(l))]
       ELSE UNCHANGED <<pendingRequests, calls>>
  /\ UNCHANGED <<serverProcess, nextId, stopVars, hookVars, serverVars, fsVars>>

\* the timer of call c fires: delete the entry of its id, reject
Timeout(c) ==
  /\ calls[c].timer
  /\ pendingRequests' = [pendingRequests EXCEPT ![calls[c].id] = 0]
  /\ calls' = [calls EXCEPT ![c] = Settled([calls[c] EXCEPT !.timer = FALSE],
                                          "rejected")]
  /\ clientStep' = [kind |-> "timeout", id |-> calls[c].id, c |-> c]
  /\ UNCHANGED <<serverProcess, nextId, stopVars, hookVars, serverVars, fsVars>>

\* (variant: the exit handler only forgets the child)
RejectAllPendingOmitted ==
  UNCHANGED <<pendingRequests, calls>>

\* rejectAllPending: clear the timer of every entry, reject it, clear the table
RejectAllPending ==
  /\ calls' = [c \in 1..MaxCalls |->
                IF \E i \in 1..MaxCalls : pendingRequests[i] = c
                  THEN Settled([calls[c] EXCEPT !.timer = FALSE], "rejected")
                  ELSE calls[c]]
  /\ pendingRequests' = [i \in 1..MaxCalls |-> 0]

\* the exit event of the child serverProcess refers to: code is "zero",
\* "nonzero" or "null" (killed by a signal). The handler of start() runs, then
\* the once('exit') listener of a stop() waiting for this child resolves it
\* and stop() sets serverProcess to null; its grace timer stays armed
ChildExit(code) ==
  /\ serverProcess = "running"
  /\ IF code = "nonzero" THEN RejectAllPending
                          ELSE UNCHANGED <<pendingRequests, calls>>
  /\ serverProcess' = "null"
  /\ killed' = FALSE /\ stdinEnded' = FALSE
  /\ IF stopStep = "waiting"
       THEN stopStep' = "idle" /\ staleTimers' = staleTimers + 1
       ELSE UNCHANGED <<stopStep, staleTimers>>
  /\ clientStep' = [kind |-> "exit", id |-> IF code = "nonzero" THEN 1 ELSE 0,
                    c |-> 0]
  /\ UNCHANGED <<nextId, orphans, spawned, hookVars, serverVars, fsVars>>

\* the exit event of a child serverProcess no longer refers to: the handler
\* start() registered on it runs all the same and sets serverProcess to null,
\* whichever child it refers to; awaited: it is the child a stop() waits for
OrphanExit(code, awaited) ==
  /\ orphans > 0
  /\ awaited => stopStep \in {"waitingOrphan", "waitingKilledOrphan"}
  /\ (~awaited /\ stopStep \in {"waitingOrphan", "waitingKilledOrphan"})
       => orphans > 1
  /\ IF code = "nonzero" THEN RejectAllPending
                          ELSE UNCHANGED <<pendingRequests, calls>>
  /\ serverProcess' = "null"
  /\ orphans' = IF serverProcess = "running" THEN orphans ELSE orphans - 1
  /\ killed' = FALSE /\ stdinEnded' = FALSE
  /\ IF awaited
       THEN stopStep' = "idle" /\ staleTimers' = staleTimers + 1
       ELSE /\ stopStep' = IF stopStep = "waiting"
                             THEN (IF killed THEN "waitingKilledOrphan"
                                             ELSE "waitingOrphan")
                             ELSE stopStep
            /\ UNCHANGED staleTimers
  /\ clientStep' = [kind |-> "exit", id |-> IF code = "nonzero" THEN 1 ELSE 0,
                    c |-> 0]
  /\ UNCHANGED <<nextId, spawned, hookVars, serverVars, fsVars>>

\* the error event of the child
ChildError ==
  /\ serverProcess = "running"
  /\ RejectAllPending
  /\ clientStep' = [kind |-> "error", id |-> 0, c |-> 0]
  /\ UNCHANGED <<serverProcess, nextId, stopVars, hookVars, serverVars, fsVars>>

\* McpTestClient.stop up to its await: a no-op when serverProcess is null,
\* else stdin.end() and the wait for the exit event or the grace timer (one
\* stop() in flight at a time)
Stop ==
  /\ stopStep = "idle"
  /\ IF serverProcess = "null"
       THEN /\ clientStep' = [kind |-> "stopNoop", id |-> 0, c |-> 0]
            /\ UNCHANGED <<stdinEnded, stopStep>>
       ELSE /\ stdinEnded' = TRUE
            /\ stopStep' = "waiting"
            /\ clientStep' = [kind |-> "stop", id |-> 0, c |-> 0]
  /\ UNCHANGED <<serverProcess, pendingRequests, nextId, calls, killed,
                 staleTimers, orphans, spawned, hookVars, serverVars, fsVars>>

\* the grace timer: if (this.serverProcess && !this.serverProcess.killed)
\* this.serverProcess.kill('SIGTERM')
SendsSigterm(proc, k) == proc = "running" /\ ~k

\* the grace timer of the stop() in flight fires: SIGTERM to the child
\* serverProcess refers to now, the wait is resolved and stop() sets
\* serverProcess to null. clientStep.id is 1 when the child stop() waited for
\* has been sent SIGTERM, by this timer or earlier
GraceTimeout ==
  /\ stopStep # "idle"
  /\ clientStep' = [kind |-> "graceTimeout",
                    id |-> IF \/ stopStep = "waitingKilledOrphan"
                              \/ (stopStep = "waiting" /\
                                    (killed \/ SendsSigterm(serverProcess, killed)))
                             THEN 1 ELSE 0,
                    c |-> 0]
  /\ serverProcess' = "null"
  /\ orphans' = IF serverProcess = "running" THEN orphans + 1 ELSE orphans
  /\ killed' = FALSE /\ stdinEnded' = FALSE
  /\ stopStep' = "idle"
  /\ UNCHANGED <<pendingRequests, nextId, calls, staleTimers, spawned,
                 hookVars, serverVars, fsVars>>

\* the grace timer of a stop() that completed on the exit event fires: it
\* was not cleared, and sends SIGTERM to the child serverProcess refers to now
StaleGraceTimeout ==
  /\ staleTimers > 0
  /\ staleTimers' = staleTimers - 1
  /\ killed' = (killed \/ SendsSigterm(serverProcess, killed))
  /\ clientStep' = [kind |-> "staleTimeout",
                    id |-> IF SendsSigterm(serverProcess, killed) THEN 1 ELSE 0,
                    c |-> 0]
  /\ UNCHANGED <<serverProcess, pendingRequests, nextId, calls, stdinEnded,
                 stopStep, orphans, spawned, hookVars, serverVars, fsVars>>

\* McpTestClient.isRunning
IsRunning == serverProcess # "null" /\ ~killed

\* ------------------------------------------------- screenshot directory
\* the characters of the names: a letter, the dot and a line feed
NameChars == {"a", ".", "\n"}

SeqsUpTo(S, n) == UNION {[1..k -> S] : k \in 0..n}

\* the names a directory entry can have ("." and ".." are not entries)
Names == SeqsUpTo(NameChars, MaxNameLen) \ {<<>>, <<".">>, <<".", ".">>}

\* the pattern arguments
Patterns == SeqsUpTo(NameChars \cup {"*"}, MaxPatLen)

\* the characters matchesPattern escapes: /[.+?^${}()|[\]\\]/g
RegexSpecial == {".", "+", "?", "^", "$", "{", "}", "(", ")", "|", "[", "]", "\\"}

RECURSIVE EscapeSpecial(_)
\* pattern.replace(/[.+?^${}()|[\]\\]/g, '\\$&')
EscapeSpecial(p) ==
  IF p = <<>> THEN <<>>
  ELSE (IF Head(p) \in RegexSpecial THEN <<"\\", Head(p)>> ELSE <<Head(p)>>)
       \o EscapeSpecial(Tail(p))

RECURSIVE StarToDotStar(_)
\* .replace(/\*/g, '.*')
StarToDotStar(p) ==
  IF p = <<>> THEN <<>>
  ELSE (IF Head(p) = "*" THEN <<".", "*">> ELSE <<Head(p)>>)
       \o StarToDotStar(Tail(p))

\* the characters the regex atom . does not match (no s flag)
LineTerminators == {"\n", "\r"}

RECURSIVE RegexTest(_, _)
\* new RegExp(`^${regexPattern}$`).test(filename), for the expressions the
\* two replacements produce: an escaped character, .* , . or a character
RegexTest(re, name) ==
  IF re = <<>> THEN name = <<>>
  ELSE IF Head(re) = "\\" /\ Len(re) >= 2
    THEN name # <<>> /\ Head(name) = re[2]
         /\ RegexTest(Tail(Tail(re)), Tail(name))
  ELSE IF Head(re) = "." /\ Len(re) >= 2 /\ re[2] = "*"
    THEN \/ RegexTest(Tail(Tail(re)), name)
         \/ (name # <<>> /\ Head(name) \notin LineTerminators
               /\ RegexTest(re, Tail(name)))
  ELSE IF Head(re) = "."
    THEN name # <<>> /\ Head(name) \notin LineTerminators
         /\ RegexTest(Tail(re), Tail(name))
  ELSE name # <<>> /\ Head(name) = Head(re) /\ RegexTest(Tail(re), Tail(name))

\* matchesPattern(filename, pattern)
MatchesPattern(filename, pattern) ==
  RegexTest(StarToDotStar(EscapeSpecial(pattern)), filename)

\* cleanDirectory: the regular files the loop unlinks; `if (pattern)` skips
\* the test for a pattern that is the empty string
Unlinked(entries, pattern) ==
  {f \in entries : pattern = <<>> \/ MatchesPattern(f, pattern)}

\* ensureDir(config.screenshotDir) (launch, browser_screenshot)
EnsureDir ==
  /\ dirKind = "none"
  /\ dirKind' = "dir"
  /\ cleanResult' = NoClean
  /\ UNCHANGED <<files, subdirs, hookVars, serverVars, clientVars>>

\* page.screenshot({path}) writes a regular file into the directory
WriteScreenshot(name) ==
  /\ dirKind = "dir"
  /\ name \notin files \cup subdirs
  /\ Cardinality(files) < MaxFiles
  /\ files' = files \cup {name}
  /\ cleanResult' = NoClean
  /\ UNCHANGED <<dirKind, subdirs, hookVars, serverVars, clientVars>>

\* an entry of the directory that is not a regular file
MakeSubdir(name) ==
  /\ dirKind = "dir"
  /\ name \notin files \cup subdirs
  /\ Cardinality(subdirs) < MaxSubdirs
  /\ subdirs' = subdirs \cup {name}
  /\ cleanResult' = NoClean
  /\ UNCHANGED <<dirKind, files, hookVars, serverVars, clientVars>>

\* the path names a regular file
PathIsFile ==
  /\ dirKind = "none"
  /\ dirKind' = "file"
  /\ cleanResult' = NoClean
  /\ UNCHANGED <<files, subdirs, hookVars, serverVars, clientVars>>

\* BrowserManager.cleanScreenshots(pattern) -> cleanDirectory(dir, pattern),
\* on a directory nothing else changes meanwhile
CleanScreenshots(pattern) ==
  /\ IF dirKind = "none"
       THEN /\ cleanResult' = [pattern |-> pattern, outcome |-> "returned",
                               count |-> 0]
            /\ UNCHANGED files
     ELSE IF dirKind = "file"
       THEN /\ cleanResult' = [pattern |-> pattern, outcome |-> "threw",
                               count |-> 0]
            /\ UNCHANGED files
       ELSE /\ files' = files \ Unlinked(files, pattern)
            /\ cleanResult' = [pattern |-> pattern, outcome |-> "returned",
                               count |-> Cardinality(Unlinked(files, pattern))]
  /\ UNCHANGED <<dirKind, subdirs, hookVars, serverVars, clientVars>>

\* ------------------------------------------------------- specification
Next ==
  \/ \E t \in Callers : Launch(t) /\ Quiet
  \/ \E t \in Callers : LaunchEnsureDirDone(t) /\ Quiet
  \/ \E t \in Callers : ChromiumLaunchDone(t) /\ Quiet
  \/ \E t \in Callers : NewContextDone(t) /\ Quiet
  \/ \E t \in Callers : NewPageDone(t) /\ Quiet
  \/ \E t \in Callers : Navigate(t) /\ Quiet
  \/ \E t \in Callers : WaitForSelector(t) /\ Quiet
  \/ \E t \in Callers : Click(t) /\ Quiet
  \/ \E t \in Callers : Type(t) /\ Quiet
  \/ \E t \in Callers : TypeClearDone(t) /\ Quiet
  \/ \E t \in Callers : EngineCallDone(t) /\ Quiet
  \/ \E t \in Callers : GetTitle(t) /\ Quiet
  \/ \E t \in Callers : TitleDone(t) /\ Quiet
  \/ \E t \in Callers : GetUrl(t) /\ Quiet
  \/ \E t \in Callers : Find(t) /\ Quiet
  \/ \E t \in Callers : GetElementInfo(t) /\ Quiet
  \/ \E t \in Callers : WaitAttachedDone(t) /\ Quiet
  \/ \E t \in Callers : EvaluateDone(t) /\ Quiet
  \/ \E t \in Callers : InnerTextDone(t) /\ Quiet
  \/ \E t \in Callers : BoundingBoxDone(t) /\ Quiet
  \/ \E t \in Callers : Screenshot(t) /\ Quiet
  \/ \E t \in Callers : ShotEnsureDirDone(t) /\ Quiet
  \/ \E t \in Callers : ShotCaptureDone(t) /\ Quiet
  \/ \E t \in Callers : Quit(t) /\ Quiet
  \/ \E t \in Callers : ClosePageDone(t) /\ Quiet
  \/ \E t \in Callers : CloseContextDone(t) /\ Quiet
  \/ \E t \in Callers : CloseBrowserDone(t) /\ Quiet
  \/ \E t \in Callers : Shutdown(t) /\ Quiet
  \/ \E t \in Callers : Return(t) /\ Quiet

\* the Session Manager driven by its callers
Spec == Init /\ [][Next]_vars

\* the lifecycle operations of the callers under the Shutdown Coordinator,
\* whose cleanup callback is browserManager.shutdown()
HookNext ==
  \/ \E t \in Callers : Launch(t) /\ Quiet
  \/ \E t \in Callers : LaunchEnsureDirDone(t) /\ Quiet
  \/ \E t \in Callers : ChromiumLaunchDone(t) /\ Quiet
  \/ \E t \in Callers : NewContextDone(t) /\ Quiet
  \/ \E t \in Callers : NewPageDone(t) /\ Quiet
  \/ \E t \in Callers : ShotEnsureDirDone(t) /\ Quiet
  \/ \E t \in Callers : ShotCaptureDone(t) /\ Quiet
  \/ \E t \in Callers : Quit(t) /\ Quiet
  \/ \E t \in AllTasks : ClosePageDone(t) /\ Quiet
  \/ \E t \in AllTasks : CloseContextDone(t) /\ Quiet
  \/ \E t \in AllTasks : CloseBrowserDone(t) /\ Quiet
  \/ \E t \in Callers : Shutdown(t) /\ Quiet
  \/ \E t \in Callers : Return(t) /\ Quiet
  \/ \E sig \in Signals : Trigger(sig) /\ Quiet
  \/ ForceExit /\ Quiet
  \/ CleanupRejects /\ Quiet

HookSpec == Init /\ [][HookNext]_vars

\* the same, with the scheduling the event loop gives: an armed timer fires
\* (no step runs for SHUTDOWN_TIMEOUT_MS), a settled call resumes its caller
HookLive ==
  /\ HookSpec
  /\ SF_vars(ForceExit /\ Quiet)
  /\ WF_vars(\E t \in Callers : Return(t) /\ Quiet)

\* the MCP server: tool handlers drive the Session Manager, the process hooks
\* are registered with browserManager.shutdown() as cleanup callback
ServerNext ==
  \/ \E l \in Lines : Answer(l)
  \/ ReadNull
  \/ \E t \in Callers : ToolBrowserLaunch(t)
  \/ \E t \in Callers : ToolBrowserNavigate(t)
  \/ \E t \in Callers : ToolBrowserScreenshot(t)
  \/ \E t \in Callers : ToolBrowserQuit(t)
  \/ \E t \in Callers : LaunchEnsureDirDone(t) /\ Quiet
  \/ \E t \in Callers : ChromiumLaunchDone(t) /\ Quiet
  \/ \E t \in Callers : NewContextDone(t) /\ Quiet
  \/ \E t \in Callers : NewPageDone(t) /\ Quiet
  \/ \E t \in Callers : EngineCallDone(t) /\ Quiet
  \/ \E t \in Callers : ToolEnsureDirDone(t) /\ Quiet
  \/ \E t \in Callers : ShotEnsureDirDone(t) /\ Quiet
  \/ \E t \in Callers : ShotCaptureDone(t) /\ Quiet
  \/ \E t \in AllTasks : ClosePageDone(t) /\ Quiet
  \/ \E t \in AllTasks : CloseContextDone(t) /\ Quiet
  \/ \E t \in AllTasks : CloseBrowserDone(t) /\ Quiet
  \/ \E t \in Callers : Respond(t)
  \/ \E sig \in Signals : Trigger(sig) /\ Quiet
  \/ ForceExit /\ Quiet
  \/ StdinClose

ServerSpec == Init /\ [][ServerNext]_vars

\* the tool handlers of requests a client sends without waiting for the
\* responses: launch, navigate and quit calls on NHandlers handlers
PipelinedNext ==
  \/ \E t \in Handlers : ToolBrowserLaunch(t)
  \/ \E t \in Handlers : ToolBrowserNavigate(t)
  \/ \E t \in Handlers : ToolBrowserQuit(t)
  \/ \E t \in Handlers : LaunchEnsureDirDone(t) /\ Quiet
  \/ \E t \in Handlers : ChromiumLaunchDone(t) /\ Quiet
  \/ \E t \in Handlers : NewContextDone(t) /\ Quiet
  \/ \E t \in Handlers : NewPageDone(t) /\ Quiet
  \/ \E t \in Handlers : EngineCallDone(t) /\ Quiet
  \/ \E t \in Handlers : ShotEnsureDirDone(t) /\ Quiet
  \/ \E t \in Handlers : ShotCaptureDone(t) /\ Quiet
  \/ \E t \in Handlers : ClosePageDone(t) /\ Quiet
  \/ \E t \in Handlers : CloseContextDone(t) /\ Quiet
  \/ \E t \in Handlers : CloseBrowserDone(t) /\ Quiet
  \/ \E t \in Handlers : Respond(t)

PipelinedSpec == Init /\ [][PipelinedNext]_vars

\* the test client against a child whose output and exit are unconstrained
ClientNext ==
  \/ ClientStart
  \/ \E c \in 1..MaxCalls, supplied \in 0..MaxCalls : Call(c, supplied)
  \/ \E l \in ResponseLines : HandleResponse(l)
  \/ \E c \in 1..MaxCalls : Timeout(c)
  \/ \E code \in {"zero", "nonzero", "null"} : ChildExit(code)
  \/ ChildError

ClientSpec == Init /\ [][ClientNext]_vars

\* setTimeout: an armed timer fires unless it is cleared
ClientLive ==
  /\ ClientSpec
  /\ \A c \in 1..MaxCalls : WF_vars(Timeout(c))

\* the life cycle of the child under start() and stop(), with calls
\* registered meanwhile
StopNext ==
  \/ ClientStart
  \/ \E c \in 1..MaxCalls, supplied \in 0..MaxCalls : Call(c, supplied)
  \/ ChildError
  \/ Stop
  \/ \E code \in {"zero", "nonzero", "null"} : ChildExit(code)
  \/ \E code \in {"zero", "nonzero", "null"}, awaited \in BOOLEAN :
       OrphanExit(code, awaited)
  \/ GraceTimeout
  \/ StaleGraceTimeout

StopSpec == Init /\ [][StopNext]_vars

\* setTimeout: the grace timer of stop() fires
StopLive ==
  /\ StopSpec
  /\ WF_vars(GraceTimeout)

\* cleanScreenshots on the directories the session's screenshots and the
\* environment make
FsNext ==
  \/ EnsureDir
  \/ PathIsFile
  \/ \E name \in Names : WriteScreenshot(name)
  \/ \E name \in Names : MakeSubdir(name)
  \/ \E pattern \in Patterns : CleanScreenshots(pattern)

FsSpec == Init /\ [][FsNext]_vars

\* ======================================================= properties

HandlesNull == browser = NULL /\ context = NULL /\ page = NULL

Calls(t, ops) == task[t].pc = "idle" /\ task'[t].op \in ops

Completes(t) == task[t].pc # "done" /\ task'[t].pc = "done"

\* C1: in every reachable state the page handle is non-null if and only if
\* the engine handle is non-null (the session is never partially launched).
SessionAtomic == (page # NULL) <=> (browser # NULL)

\* C2: a launch called after a launch has succeeded, with no step of a quit
\* or shutdown in between, fails with the already-launched error, and no step
\* of it changes the engine, context or page handle.
SecondLaunchRejected ==
  [][\A t \in Callers :
       /\ (launchedSinceQuit /\ Calls(t, {"launch"}))
            => /\ task'[t].err = "AlreadyLaunched"
               /\ task'[t].pc = "done" => task'[t].res = "AlreadyLaunched"
               /\ <<browser, context, page>>' = <<browser, context, page>>
       /\ (task[t].op = "launch" /\ task[t].err = "AlreadyLaunched"
             /\ task'[t].pc # task[t].pc)
            => /\ task'[t].pc = "done" => task'[t].res = "AlreadyLaunched"
               /\ <<browser, context, page>>' = <<browser, context, page>>
    ]_vars

SecondLaunchRejectedSeen ==
  \E t \in Callers :
    /\ task[t].op = "launch" /\ task[t].pc = "done"
    /\ task[t].res = "AlreadyLaunched"
    /\ launchedSinceQuit /\ page # NULL /\ browser # NULL

\* C3: an operation that requires a launched session, called before any
\* launch or after a quit has returned (and no launch was called since), fails
\* at once with the not-launched error and changes no handle.
NotLaunchedRejected ==
  [][\A t \in Callers :
       (cleanSlate /\ Calls(t, RequiresLaunch))
         => /\ task'[t].pc = "done"
            /\ task'[t].res = "NotLaunched"
            /\ <<browser, context, page>>' = <<browser, context, page>>
    ]_vars

NotLaunchedAfterQuitSeen ==
  \E t \in Callers :
    /\ task[t].op \in RequiresLaunch /\ task[t].pc = "done"
    /\ task[t].res = "NotLaunched"
    /\ cleanSlate /\ launchCount > 0

\* C4: shutdown calls, sequential or overlapping, never throw, and together
\* they issue at most one close() on each page, context and engine handle.
ShutdownIdempotent ==
  /\ \A k \in Kinds : closes[k] <= 1
  /\ \A t \in AllTasks :
       (task[t].op = "shutdown" /\ task[t].pc = "done") => task[t].res = "ok"

ShutdownOverlapSeen ==
  \E t \in Callers :
    /\ task[t].op = "shutdown" /\ task[t].pc = "done"
    /\ task[HookTask].op = "shutdown" /\ InFlight(task[HookTask])
    /\ closes[ClosingKind(task[HookTask].pc)] = 1

\* a shutdown that passed its guard and found an engine handle returns
ShutdownTeardownEnds(t) ==
  /\ Completes(t)
  /\ task'[t].op = "shutdown"
  /\ \/ task[t].op = "shutdown"
     \/ ~mgrIsShuttingDown /\ browser # NULL

\* C5: when a shutdown call that ran teardown completes, the engine, context
\* and page handles are all null, also from a partially launched session.
ShutdownClearsHandles ==
  [][\A t \in Callers : ShutdownTeardownEnds(t) => HandlesNull']_vars

\* C6: a quit on a launched session that no other call overlaps ends with all
\* three handles null; when a close throws the handles are still nulled and
\* the close error is what the caller receives.
QuitClearsHandles ==
  [][\A t \in Callers :
       (task[t].op = "quit" /\ InFlight(task[t]) /\ Completes(t) /\ solo)
         => /\ HandlesNull'
            /\ task'[t].res = IF task'[t].err = "none" THEN "ok" ELSE "CloseError"
            /\ task'[t].err \in {"none", "CloseError"}
    ]_vars

QuitCloseErrorSeen ==
  \E t \in Callers :
    /\ task[t].op = "quit" /\ task[t].pc = "done"
    /\ task[t].res = "CloseError" /\ solo /\ HandlesNull

\* C7: the caller of a failed step receives the error of the operation,
\* whether the error screenshot was saved, failed or was skipped.
ErrorNotMasked ==
  \A t \in Callers :
    (task[t].pc = "done" /\ task[t].op # "shutdown" /\ task[t].err # "none")
      => task[t].res = task[t].err

CaptureFailedSeen ==
  \E t \in Callers :
    /\ task[t].pc = "done" /\ task[t].shot = "failed"
    /\ task[t].err # "none" /\ task[t].res = task[t].err

FailedStep(tk, ops) == tk.pc = "done" /\ tk.op \in ops /\ tk.err # "none"

\* C8 (as claimed): a step that fails on a launched session leaves exactly
\* one error screenshot and propagates the original error.
FailedStepOneShot ==
  \A t \in Callers :
    (FailedStep(task[t], StepOps \cup {"quit"}) /\ solo)
      => task[t].shot = "saved" /\ task[t].res = task[t].err

\* C8 (amended): a navigate, waitForSelector, click or type step that fails on
\* a launched session, overlapped by no other call, attempts the error
\* screenshot exactly once (one file when the capture succeeds, none when it
\* fails) and propagates the original error; a failed quit captures nothing.
FailedStepCaptureAttempted ==
  \A t \in Callers :
    /\ (FailedStep(task[t], StepOps) /\ solo)
         => task[t].shot \in {"saved", "failed"} /\ task[t].res = task[t].err
    /\ (FailedStep(task[t], {"quit"}) /\ solo)
         => task[t].shot = "skipped" /\ task[t].res = task[t].err

FailedClickShotSeen ==
  \E t \in Callers :
    /\ FailedStep(task[t], {"click"}) /\ solo
    /\ task[t].shot = "saved" /\ task[t].res = "ClickFailed"

\* C9: getElementInfo on a launched session never raises, and returns
\* found=false when the selector matches no element.
InfoNeverRaises ==
  \A t \in Callers :
    (task[t].pc = "done" /\ task[t].op = "getElementInfo"
       /\ task[t].res # "NotLaunched")
      => /\ task[t].res \in {"found_true", "found_false"}
         /\ ~task[t].arg => task[t].res = "found_false"

InfoNotFoundSeen ==
  \E t \in Callers :
    /\ task[t].pc = "done" /\ task[t].op = "getElementInfo"
    /\ ~task[t].arg /\ task[t].res = "found_false"

\* C10: the cleanup callback is invoked at most once, and a trigger that
\* arrives after shutdown has begun starts nothing.
CleanupAtMostOnce ==
  [][/\ cleanupCalls' <= 1
     /\ isShuttingDown =>
          /\ cleanupCalls' = cleanupCalls
          /\ exitCode' = exitCode
          /\ isShuttingDown'
    ]_vars

TriggerIgnoredSeen == ignoredTrigger /\ cleanupCalls = 1 /\ isShuttingDown

\* the process was ended by performShutdown or by its force-exit timer
CoordinatedExit == exitBy \in {"cleanup", "cleanupFailed", "timer"}

\* C11 (as claimed): after a coordinated shutdown the exit status is 130 for
\* an interrupt, 0 for a termination unless the cleanup callback failed (then
\* 1), and 1 for an uncaught exception or unhandled rejection.
ExitCodeTable ==
  CoordinatedExit =>
    exitStatus = CASE signal = "SIGINT" -> 130
                   [] signal = "SIGTERM" ->
                        (IF exitBy = "cleanupFailed" THEN 1 ELSE 0)
                   [] OTHER -> 1

\* C11 (amended): after a coordinated shutdown the exit status is 1 when the
\* cleanup callback failed, whatever the trigger; otherwise it is that of the
\* first trigger (130 interrupt, 0 termination, 1 fault or rejection), also
\* when the timer forced the exit and when later triggers were ignored.
ExitCodeOfFirstTrigger ==
  CoordinatedExit =>
    exitStatus = IF exitBy = "cleanupFailed" THEN 1
                 ELSE CASE signal = "SIGINT" -> 130
                        [] signal = "SIGTERM" -> 0
                        [] OTHER -> 1

InterruptCleanupFailedSeen ==
  /\ exitBy = "cleanupFailed" /\ signal = "SIGINT" /\ exitStatus = 1
  /\ ignoredTrigger

\* C12: once shutdown has begun the process eventually exits; the timer,
\* when it fires, exits with the code of the trigger; when the cleanup callback
\* settles first the timer is cleared in the step that exits.
ShutdownEventuallyExits ==
  /\ [](isShuttingDown => <>(exitStatus # NoExit))
  /\ [][(exitBy = "none" /\ exitBy' = "timer")
          => exitStatus' = TriggerExitCode(signal)]_vars
  /\ [][(exitBy = "none" /\ exitBy' \in {"cleanup", "cleanupFailed"})
          => ~shutdownTimeout']_vars

TimerForcedExitSeen ==
  /\ exitBy = "timer" /\ InFlight(task[HookTask])
  /\ exitStatus = ExitSigint

\* C13: on every path by which the server process exits without being forced
\* by the timer (cleanup settled after a signal or a fault, input stream
\* closed), the teardown of a launched session has completed before the exit:
\* no page is left open.
TeardownBeforeExit ==
  (exitStatus # NoExit /\ exitBy # "timer") => page = NULL

\* C14: a line that is not valid JSON is answered in the step that reads it
\* with one error response of code -32700 and id null; the step changes
\* nothing of the session, of the coordinator or of the pending requests, the
\* server is still running, and a valid line sent next is answered.
InvalidLineAnswered ==
  /\ [][lineRead'.json = "invalid" =>
          /\ written'.code = -32700 /\ written'.id = "null"
          /\ written'.result = "none"
          /\ UNCHANGED <<hookVars, isInitialized, req>>]_vars
  /\ [](lineRead.json = "invalid" =>
          /\ exitStatus = NoExit
          /\ \A i \in ReqIds :
               ENABLED Answer(MkLine("object", "tools/list", i, "none", "none",
                                     FALSE, FALSE)))

InvalidLineWithSessionSeen ==
  /\ lineRead.json = "invalid" /\ written.code = -32700
  /\ page # NULL /\ isInitialized
  /\ \E t \in Callers : InFlight(task[t])

\* C15: every non-blank line that parses as JSON, whatever the parsed value,
\* is answered by exactly one response (at once, or by the tool handler that
\* took it), and reading it neither starts a shutdown nor ends the process.
EveryRequestAnswered ==
  [][lineRead'.json \in {"object", "null", "scalar"} =>
       /\ \/ written' # NoResponse
          \/ \E t \in Callers : req[t] = NoReq /\ req'[t] # NoReq
       /\ UNCHANGED <<isShuttingDown, exitStatus>>]_vars

\* C16: every response written carries exactly one of result and error, and
\* its id is the id of the request it answers (the line just read, or the
\* request of the tool handler that finished), or null when that request had
\* no id or the line could not be parsed.
ResponseWellFormed ==
  [][written' # NoResponse =>
       LET Echo(id) == IF id = "absent" THEN "null" ELSE id IN
       /\ (written'.result # "none") # (written'.code # 0)
       /\ IF lineRead' # NoLine
            THEN written'.id = IF lineRead'.json = "object"
                                 THEN Echo(lineRead'.id) ELSE "null"
            ELSE \E t \in Callers :
                   /\ req[t] # NoReq /\ req'[t] = NoReq
                   /\ written'.id = Echo(req[t].id)]_vars

ToolErrorEchoesIdSeen ==
  /\ lineRead = NoLine /\ written.id = "id2" /\ written.code = -32603
  /\ written.result = "none"

\* C17: a tools/list request is answered with exactly the seven documented
\* tool names, in every server state, and changes nothing of the session.
ToolsListComplete ==
  [][(lineRead'.json = "object" /\ lineRead'.method = "tools/list") =>
       /\ written'.tools = {"browser_launch", "browser_navigate", "browser_find",
                            "browser_click", "browser_type", "browser_screenshot",
                            "browser_quit"}
       /\ UNCHANGED hookVars]_vars

\* C18: with a session launched, a tools/call naming browser_find,
\* browser_click or browser_type is never answered with method-not-found.
CatalogueToolsDispatched ==
  [][(/\ lineRead'.json = "object" /\ lineRead'.method = "tools/call"
      /\ lineRead'.params = "named"
      /\ lineRead'.name \in {"browser_find", "browser_click", "browser_type"}
      /\ page # NULL /\ launchedSinceQuit)
       => written'.code # -32601]_vars

\* C19: a tools/call whose name the server does not dispatch is answered in
\* the same step with one error response of code -32601 whose message names
\* the tool, and no Session Manager operation is started or changed.
UnknownToolRejected ==
  [][(/\ lineRead'.json = "object" /\ lineRead'.method = "tools/call"
      /\ lineRead'.params = "named"
      /\ lineRead'.name \notin {"browser_launch", "browser_navigate",
                                "browser_screenshot", "browser_quit"})
       => /\ written'.code = -32601 /\ written'.result = "none"
          /\ written'.message = "Unknown tool"
          /\ written'.about = lineRead'.name
          /\ written'.id = (IF lineRead'.id = "absent" THEN "null"
                            ELSE lineRead'.id)
          /\ UNCHANGED <<hookVars, isInitialized, req>>]_vars

UnknownToolWithSessionSeen ==
  /\ lineRead.name = "no_such_tool" /\ written.code = -32601
  /\ written.about = "no_such_tool" /\ written.id = "id1"
  /\ page # NULL

\* C20: a browser_navigate call read after a browser_quit call was answered
\* with success, and before any later browser_launch was, is answered with
\* the guided not-launched error.
NavigateAfterQuitGuided ==
  [][\A t \in Slots :
       (/\ req[t].tool = "browser_navigate" /\ req[t].afterQuit
        /\ req'[t] = NoReq /\ written' # NoResponse)
         => /\ written'.code = -32603
            /\ written'.message = "Browser not launched. Call browser_launch first."
    ]_vars

\* C21: isInitialized never goes back to false and becomes true only in a
\* step that reads an initialize request; that request is always answered
\* with a result and changes nothing of the session; before initialize a
\* tools/list request is answered with the tool list and a tools/call is
\* taken by its handler exactly as after it.
HandshakePermissive ==
  /\ [][/\ isInitialized => isInitialized'
        /\ (~isInitialized /\ isInitialized') =>
              (lineRead'.json = "object" /\ lineRead'.method = "initialize")
        /\ (lineRead'.json = "object" /\ lineRead'.method = "initialize") =>
              /\ isInitialized'
              /\ written'.result # "none" /\ written'.code = 0
              /\ UNCHANGED hookVars
        /\ (lineRead'.json = "object" /\ lineRead'.method = "tools/list") =>
              (written'.result = "tools" /\ written'.code = 0)]_vars
  /\ [](\A t \in Callers :
          CanCall(t) =>
            /\ ENABLED ToolBrowserQuit(t)
            /\ ENABLED ToolBrowserNavigate(t)
            /\ ENABLED ToolBrowserScreenshot(t))

ServedBeforeInitializeSeen ==
  /\ ~isInitialized /\ page # NULL
  /\ lineRead.method = "tools/list" /\ written.result = "tools"

\* C22: a tools/call whose params is missing or not an object, or whose name
\* is missing or not a string, and a browser_navigate call without a string
\* url, are answered in the reading step with one error response of code
\* -32602; no tool handler is started and no Session Manager call is made.
InvalidParamsRejected ==
  [][(/\ lineRead'.json = "object" /\ lineRead'.method = "tools/call"
      /\ \/ lineRead'.params \in {"notObject", "noName"}
         \/ /\ lineRead'.params = "named"
            /\ lineRead'.name = "browser_navigate" /\ ~lineRead'.url)
       => /\ written'.code = -32602 /\ written'.result = "none"
          /\ written'.id = (IF lineRead'.id = "absent" THEN "null"
                            ELSE lineRead'.id)
          /\ UNCHANGED <<hookVars, isInitialized, req>>]_vars

NavigateWithoutUrlSeen ==
  /\ lineRead.name = "browser_navigate" /\ ~lineRead.url
  /\ written.code = -32602 /\ page # NULL /\ launchedSinceQuit

MutatingOpsSerialized ==
  Cardinality({t \in AllTasks :
                 /\ InFlight(task[t])
                 /\ task[t].op \in {"launch", "quit", "shutdown", "navigate",
                                    "click", "type"}}) <= 1

\* C25: an engine instance is created only while the session holds none, and
\* a launch completes with success only while no page of another launch is
\* held: of launches that overlap at most one creates an engine and succeeds.
SingleSession ==
  [][\A t \in Slots :
       /\ (task[t].pc = "chromiumLaunch" /\ task'[t].pc = "newContext")
            => browser = NULL
       /\ (/\ task[t].op = "launch" /\ InFlight(task[t])
           /\ task'[t].pc = "done" /\ task'[t].res = "ok")
            => page = NULL]_vars

\* C26: the step that reads a tools/call line for a dispatched tool starts
\* its handler, so handlers start in the order the lines are read; a handler
\* whose Session Manager call has settled writes its response in the next
\* step, before any other handler does, so responses come in the order of
\* completion; each response carries the id of the request of its handler.
HandlersInArrivalOrder ==
  /\ [][(/\ lineRead'.json = "object" /\ lineRead'.method = "tools/call"
          /\ lineRead'.params = "named" /\ lineRead'.url
          /\ lineRead'.name = "browser_navigate")
          \/ (/\ lineRead'.json = "object" /\ lineRead'.method = "tools/call"
              /\ lineRead'.params = "named"
              /\ lineRead'.name \in {"browser_launch", "browser_quit"})
           => \E t \in Slots :
                /\ req[t] = NoReq /\ task[t].pc = "idle"
                /\ req'[t].tool = lineRead'.name /\ req'[t].id = lineRead'.id
                /\ task'[t].op # "idle"]_vars
  /\ [][\A t \in Slots :
          task[t].pc = "done" =>
            /\ req'[t] = NoReq
            /\ written' # NoResponse
            /\ written'.id = (IF req[t].id = "absent" THEN "null" ELSE req[t].id)
       ]_vars
  /\ [](Cardinality({t \in Slots : task[t].pc = "done"}) <= 1)

\* the second of two browser_quit requests is answered while the first,
\* read before it, is still closing the page
LaterRequestAnsweredFirstSeen ==
  /\ written.result = "browser_quit" /\ written.id = "id2"
  /\ \E t \in Slots :
       /\ req[t].tool = "browser_quit" /\ req[t].id = "id1"
       /\ task[t].pc = "closePage"
  /\ page # NULL

\* C27: what a step writes to stdout is at most one response, complete: it
\* has an id member and exactly one of result and error; no step writes a
\* diagnostic message of the logger, the server, the Session Manager or the
\* Shutdown Coordinator to stdout.
StdoutOnlyResponses ==
  /\ ~stdoutLog
  /\ written # NoResponse =>
       /\ written.id # "absent"
       /\ (written.result # "none") # (written.code # 0)
       /\ written.code # 0 => written.message # "none"

ResponseDuringShutdownSeen ==
  /\ written # NoResponse /\ written.code = -32603
  /\ isShuttingDown /\ exitStatus = NoExit /\ ~stdoutLog

\* C28: resolve or reject is invoked at most once for each call(); a
\* response whose id has an entry removes the entry, clears its timer and
\* settles its call; a timer that fires removes the entry of its id and
\* rejects its call; a response whose id has no entry (it comes after the
\* timeout, or it is a second response with the same id) changes nothing.
PendingSettledOnce ==
  /\ [](\A c \in 1..MaxCalls : calls[c].settles <= 1)
  /\ [][(clientStep'.kind \in {"response", "errorResponse"} /\ clientStep'.c # 0)
          => /\ pendingRequests'[clientStep'.id] = 0
             /\ ~calls'[clientStep'.c].timer
             /\ calls[clientStep'.c].st = "pending"
             /\ calls'[clientStep'.c].st \in {"resolved", "rejected"}]_vars
  /\ [][clientStep'.kind = "timeout"
          => /\ pendingRequests'[clientStep'.id] = 0
             /\ calls[clientStep'.c].st = "pending"
             /\ calls'[clientStep'.c].st = "rejected"]_vars
  /\ [][(clientStep'.kind \in {"response", "errorResponse"} /\ clientStep'.c = 0)
          => UNCHANGED <<calls, pendingRequests>>]_vars

LateResponseDroppedSeen ==
  /\ clientStep.kind = "response" /\ clientStep.c = 0 /\ clientStep.id > 0
  /\ \E c \in 1..MaxCalls :
       /\ calls[c].id = clientStep.id /\ calls[c].st = "rejected"
       /\ calls[c].settles = 1 /\ ~calls[c].timer
  /\ serverProcess = "running"

\* C29 (as claimed): every call() eventually settles, and when a response
\* with the id of its entry arrives its promise resolves.
MatchingResponseResolves ==
  /\ \A c \in 1..MaxCalls :
       [](calls[c].st = "pending" => <>(calls[c].st \in {"resolved", "rejected"}))
  /\ [][(clientStep'.kind \in {"response", "errorResponse"} /\ clientStep'.c # 0)
          => calls'[clientStep'.c].st = "resolved"]_vars

\* C29 (amended): every call() eventually settles; a response with the id of
\* its entry resolves the promise when it has no error member and rejects it
\* when it has one; its timeout rejects it; a nonzero exit or an error event
\* of the child rejects the call of every entry; a call on a client that is
\* not running is rejected at once.
CallsEventuallySettle ==
  /\ \A c \in 1..MaxCalls :
       [](calls[c].st = "pending" => <>(calls[c].st \in {"resolved", "rejected"}))
  /\ [][/\ (clientStep'.kind = "response" /\ clientStep'.c # 0)
             => calls'[clientStep'.c].st = "resolved"
        /\ (clientStep'.kind = "errorResponse" /\ clientStep'.c # 0)
             => calls'[clientStep'.c].st = "rejected"
        /\ clientStep'.kind \in {"timeout", "callNotRunning"}
             => calls'[clientStep'.c].st = "rejected"
        /\ (clientStep'.kind = "error"
            \/ (clientStep'.kind = "exit" /\ clientStep'.id = 1))
             => \A i \in 1..MaxCalls :
                  pendingRequests[i] # 0 =>
                    calls'[pendingRequests[i]].st = "rejected"]_vars

ErrorResponseRejectsSeen ==
  /\ clientStep.kind = "errorResponse" /\ clientStep.c # 0
  /\ calls[clientStep.c].st = "rejected" /\ calls[clientStep.c].settles = 1

\* C30: when the child exits with a nonzero code, the call of every entry
\* of the pending table is rejected and its timer cleared, the table is left
\* empty and the client no longer holds the child.
NonzeroExitRejectsPending ==
  [][(clientStep'.kind = "exit" /\ clientStep'.id = 1)
      => /\ \A i \in 1..MaxCalls :
              pendingRequests[i] # 0 =>
                /\ calls'[pendingRequests[i]].st = "rejected"
                /\ ~calls'[pendingRequests[i]].timer
                /\ calls'[pendingRequests[i]].settles = 1
         /\ \A i \in 1..MaxCalls : pendingRequests'[i] = 0
         /\ serverProcess' = "null"]_vars

AllPendingRejectedAtExitSeen ==
  /\ clientStep.kind = "exit" /\ clientStep.id = 1
  /\ \A c \in 1..MaxCalls :
       calls[c].st = "rejected" /\ calls[c].id = c /\ calls[c].settles = 1

\* C31: a response line whose id is not the id of an entry of the pending
\* table (no entry under the id, a string id, a null id, a blank line or a
\* line that is not JSON) is dropped: no promise is settled, no timer is
\* cleared, the table is unchanged, the client keeps its child and goes on
\* handling lines.
UnmatchedResponseDropped ==
  /\ [][(/\ clientStep'.kind \in {"response", "errorResponse"}
          /\ (clientStep'.id <= 0 \/ pendingRequests[clientStep'.id] = 0))
          => UNCHANGED <<calls, pendingRequests, nextId, serverProcess>>]_vars
  /\ [](\A l \in ResponseLines : ENABLED HandleResponse(l))

NullIdDroppedWhilePendingSeen ==
  /\ clientStep.kind \in {"response", "errorResponse"} /\ clientStep.id = -1
  /\ \E c \in 1..MaxCalls :
       calls[c].st = "pending" /\ calls[c].timer /\ pendingRequests[calls[c].id] = c

\* C32: stop() always terminates; on a running client it ends
\* the stdin of the child; it completes at the exit event of the child it
\* waits for, or when its grace timer fires, and then that child has been
\* sent SIGTERM; when it completes the client is not running; on a client
\* already stopped it changes nothing.
StopTerminates ==
  /\ [](stopStep # "idle" => <>(stopStep = "idle"))
  /\ [][clientStep'.kind = "stop" => (serverProcess = "running" /\ stdinEnded')]_vars
  /\ [][(stopStep # "idle" /\ stopStep' = "idle")
          => /\ ~IsRunning' /\ serverProcess' = "null"
             /\ \/ clientStep'.kind = "exit"
                \/ clientStep'.kind = "graceTimeout" /\ clientStep'.id = 1]_vars
  /\ [][clientStep'.kind = "stopNoop"
          => (serverProcess = "null" /\
              UNCHANGED <<serverProcess, pendingRequests, nextId, calls, stopVars>>)]_vars

\* C33: cleanScreenshots(pattern) on a directory deletes exactly the regular
\* files whose names match the glob pattern (* matches any run of
\* characters, every other character is literal), leaves the other files and
\* the subdirectories, and returns the number of files deleted; on a
\* nonexistent directory it returns 0 and fails not.
CleanDeletesExactlyMatching ==
  [][LET RECURSIVE Glob(_, _)
         Glob(p, name) ==
           IF p = <<>> THEN name = <<>>
           ELSE IF Head(p) = "*"
             THEN Glob(Tail(p), name) \/ (name # <<>> /\ Glob(p, Tail(name)))
           ELSE name # <<>> /\ Head(name) = Head(p) /\ Glob(Tail(p), Tail(name))
     IN (cleanResult'.outcome # "none" /\ dirKind # "file")
          => /\ cleanResult'.outcome = "returned"
             /\ files' = {f \in files : ~Glob(cleanResult'.pattern, f)}
             /\ cleanResult'.count = Cardinality(files) - Cardinality(files')
             /\ subdirs' = subdirs
             /\ dirKind' = dirKind
             /\ dirKind = "none" => cleanResult'.count = 0]_vars

\* C34: within one quit() the close of the context is issued only when the
\* close of the page has completed, and the close of the engine only when
\* the close of the context has completed (or there was no context); outside
\* the error path the continuation of a close sets to null the handle that
\* close was called on.
QuitClosesInOrder ==
  [][\A t \in AllTasks :
       /\ (task'[t].pc = "closeContext" /\ task[t].pc # "closeContext")
            => task[t].pc = "closePage"
       /\ (task'[t].pc = "closeBrowser" /\ task[t].pc # "closeBrowser")
            => task[t].pc \in {"closePage", "closeContext"}
       /\ (/\ ClosingKind(task[t].pc) # "none"
           /\ task'[t].pc # task[t].pc /\ task'[t] # IdleTask
           /\ task'[t].err # "CloseError")
            => LET k == ClosingKind(task[t].pc) IN
               /\ Field(k, browser', context', page') = NULL
               /\ Field(k, browser, context, page) \in {NULL, task[t].gen}]_vars

\* C35: no operation that passed the launched check reads this.page after a
\* quit or shutdown running at the same time has set it to null: no call
\* ends with the TypeError of a member access on null.
NoNullPageDereference ==
  \A t \in AllTasks : task[t].res # "TypeError"

\* C36: no engine is leaked: whenever the session drops its reference to an
\* engine (this.browser is set to null or to another engine), browser.close()
\* has been issued on that engine.
EngineNeverLeaked ==
  [][(browser # NULL /\ browser' # browser)
      => \E t \in AllTasks :
           task[t].pc = "closeBrowser" /\ task[t].gen = browser]_vars

\* C37: the session is never wedged: in no state with every call returned
\* does launch fail with the already-launched error while quit, the page
\* operations and the quit inside shutdown fail with the not-launched error,
\* so that shutdown leaves the handles as they are.
NeverWedged ==
  ~(/\ \A t \in AllTasks : task[t].pc = "idle"
    /\ ~mgrIsShuttingDown
    /\ AlreadyLaunched(browser, page)
    /\ EnsureLaunchedFails(browser, page))

\* C38: whenever the server writes the success response of a browser_quit
\* call, the three handles are null and no close() is still awaited.
QuitSuccessMeansTornDown ==
  (written # NoResponse /\ written.result = "browser_quit")
    => /\ HandlesNull
       /\ \A t \in AllTasks : ClosingKind(task[t].pc) = "none"

\* C39: the shutting-down flag of the coordinator never goes back to false,
\* and once it is true the server starts no session operation: no call of a
\* tool handler gets as far as an engine call, and no launch passes the
\* already-launched check.
NoOperationAfterShutdownBegan ==
  /\ [][isShuttingDown => isShuttingDown']_vars
  /\ [][(isShuttingDown /\ Running)
          => /\ \A t \in Slots : task[t].pc = "idle" => ~InFlight(task'[t])
             /\ launchCount' = launchCount]_vars

\* C40: the ids of the calls pending at the same time are pairwise distinct:
\* call() never registers an id that has a pending entry, and the ids it
\* generates strictly increase.
PendingIdsDistinct ==
  /\ [](\A c, d \in 1..MaxCalls :
          (c # d /\ calls[c].st = "pending" /\ calls[d].st = "pending")
            => calls[c].id # calls[d].id)
  /\ [][clientStep'.kind = "call" => pendingRequests[clientStep'.id] = 0]_vars
  /\ [][nextId' # nextId => nextId' > nextId]_vars
====
